---- MODULE Spec2Model ----
(***************************************************************************)
(* The document/collection orchestration layer of revlogica-orchestrator:  *)
(* ExistDBService (app/application/services/existdb_service.py) on top of  *)
(* ExistDBRepository (app/infrastructure/repositories/                     *)
(* existdb_repository.py), talking to a remote eXist-DB store over REST.   *)
(*                                                                         *)
(* Every `await self.client.<method>(...)` of the repository is one        *)
(* network round trip.  A step of the model is one round trip together     *)
(* with the local code that runs between two awaits: the request reaches   *)
(* the store, the store answers, and the caller's coroutine runs up to its *)
(* next request or to the end of the service call.  Several callers run    *)
(* service calls concurrently (one shared service and repository, see      *)
(* app/presentation/dependencies.py); their round trips interleave.        *)
(***************************************************************************)
EXTENDS Integers, Sequences, FiniteSets, TLC

\* ------------------------------------------------------------------ bounds
\* Concurrent callers of the shared service.
NumCallers == 2
\* Service calls invoked in one behaviour, over all callers.
MaxCalls == 3

Callers == 1..NumCallers

\* ------------------------------------------------------------------ inputs
\* The empty string, the one value `not all([...])` rejects among strings.
Empty == ""
Collections == {"texts"}
\* Document names, in the order the store lists them.
NameOrder == <<"poem1", "poem2">>
Names == {NameOrder[i] : i \in DOMAIN NameOrder}
Contents == {"<tei/>", "<text/>"}
\* A document slot holding no document.
Absent == "absent"
\* The value of a call that returns None.
None == "None"
\* The place of a parameter the method does not have.
Unused == "-"

Keys == Collections \X Names

\* ------------------------------------------------------------------ state
VARIABLES
    colls,     \* the collections present in the remote store
    docs,      \* the remote store: key -> content, or Absent
    pc,        \* caller -> the request its coroutine is about to issue
    call,      \* caller -> the method it is in, with its arguments
    outcome,   \* caller -> what the call returned or raised
    reqs,      \* caller -> the requests the call has issued so far
    answers,   \* caller -> the answer each of these requests got
    ncalls,    \* service calls invoked so far
    last       \* key -> the last mutation the store applied to the key

vars == <<colls, docs, pc, call, outcome, reqs, answers, ncalls, last>>

\* ------------------------------------------------------------ HTTP layer
HTTP_NOT_FOUND == 404

\* A response httpx hands back, or no response at all (connect failure,
\* timeout): then httpx raises a TransportError from the client call.
Response(status, body) == [received |-> TRUE, status |-> status, body |-> body]
NoResponse == [received |-> FALSE, status |-> 0, body |-> Empty]

\* httpx.Response.raise_for_status: raises HTTPStatusError unless 2xx.
raise_for_status(r) == ~(r.status \in 200..299)

\* What a repository method hands to its caller: a value, or an exception.
Return(v) == [exc |-> "none", status |-> 0, value |-> v]
HTTPStatusError(status) == [exc |-> "HTTPStatusError", status |-> status, value |-> None]
TransportError == [exc |-> "TransportError", status |-> 0, value |-> None]
XMLSyntaxError == [exc |-> "XMLSyntaxError", status |-> 0, value |-> None]

\* ------------------------------------------------------------- the store
\* The remote store's REST contract: its answer to each request in the
\* current store state.
StoreHeadDocument(c, n) ==
    IF docs[<<c, n>>] # Absent THEN Response(200, Empty) ELSE Response(404, Empty)

StoreGetDocument(c, n) ==
    IF docs[<<c, n>>] # Absent THEN Response(200, docs[<<c, n>>]) ELSE Response(404, Empty)

StorePutDocument(c, n, x) == Response(201, Empty)

StoreDeleteDocument(c, n) ==
    IF docs[<<c, n>>] # Absent THEN Response(200, Empty) ELSE Response(404, Empty)

StoreHeadCollection(c) ==
    IF c \in colls THEN Response(200, Empty) ELSE Response(404, Empty)

StorePutCollection(c) == Response(201, Empty)

StoreDeleteCollection(c) ==
    IF c \in colls THEN Response(200, Empty) ELSE Response(404, Empty)

\* A listing body: an XML document, well-formed or not, with its elements.
\* The store's listing of a collection holds one exist:resource element per
\* document of the collection, carrying the document's name.
Xml(elements) == [wellformed |-> TRUE, elements |-> elements]
Malformed == [wellformed |-> FALSE, elements |-> <<>>]
Resource(n) == [tag |-> "exist:resource", name |-> n]

StoreListing(c) ==
    LET present(n) == docs[<<c, n>>] # Absent
        RECURSIVE Build(_)
        Build(i) ==
            IF i > Len(NameOrder) THEN <<>>
            ELSE (IF present(NameOrder[i]) THEN <<Resource(NameOrder[i])>> ELSE <<>>)
                 \o Build(i + 1)
    IN  Build(1)

StoreGetCollection(c) ==
    IF c \in colls THEN Response(200, Xml(StoreListing(c))) ELSE Response(404, Xml(<<>>))

\* The store after a document PUT: the content replaces whatever the path
\* held, and the parent collection exists afterwards.
PutDocumentEffect(c, n, x) ==
    /\ docs' = [docs EXCEPT ![<<c, n>>] = x]
    /\ colls' = colls \cup {c}

\* The store after a collection PUT: the collection exists; a PUT on a
\* collection that is already there leaves its documents as they are.
PutCollectionEffect(c) ==
    /\ colls' = colls \cup {c}
    /\ docs' = docs

DeleteDocumentEffect(c, n) ==
    /\ docs' = [docs EXCEPT ![<<c, n>>] = Absent]
    /\ colls' = colls

\* Deleting a collection removes it with all its contents.
DeleteCollectionEffect(c) ==
    /\ colls' = colls \ {c}
    /\ docs' = [k \in Keys |-> IF k[1] = c THEN Absent ELSE docs[k]]

\* The answers a request can get.  Under the store's contract it is the
\* store's own answer; a faulty environment may also answer any request
\* with an error status, 404 included, or not at all.
FaultResponses == {Response(HTTP_NOT_FOUND, Empty), Response(500, Empty), NoResponse}

Answers(env, genuine) ==
    IF env = "faulty" THEN {genuine} \cup FaultResponses ELSE {genuine}

\* A listing request may besides be answered 200 with a body that is not
\* well-formed XML.
ListingFaultResponses ==
    {Response(HTTP_NOT_FOUND, Xml(<<>>)), Response(500, Xml(<<>>)),
     Response(200, Malformed), [NoResponse EXCEPT !.body = Xml(<<>>)]}

ListingAnswers(env, genuine) ==
    IF env = "faulty" THEN {genuine} \cup ListingFaultResponses ELSE {genuine}

\* A request took effect in the store iff it was answered with a 2xx status.
Applied(r) == r.received /\ ~raise_for_status(r)

\* ------------------------------------------------------- the repository
\* ExistDBRepository.get, from the response to its GET.
get(r) ==
    IF ~r.received THEN TransportError
    ELSE IF raise_for_status(r) THEN HTTPStatusError(r.status)
    ELSE Return(r.body)

\* exists with its 404 branch lost: a 404 is raised like any other status.
exists_raises_on_404(r) ==
    IF ~r.received THEN TransportError
    ELSE IF raise_for_status(r) THEN HTTPStatusError(r.status)
    ELSE Return(TRUE)

\* exists taking every failing status for "absent".
exists_false_on_any_status(r) ==
    IF ~r.received THEN TransportError
    ELSE IF raise_for_status(r) THEN Return(FALSE)
    ELSE Return(TRUE)

\* ExistDBRepository.exists, from the response to its HEAD.
exists(r) ==
    IF ~r.received THEN TransportError
    ELSE IF raise_for_status(r)
         THEN IF r.status = HTTP_NOT_FOUND THEN Return(FALSE)
              ELSE HTTPStatusError(r.status)
    ELSE Return(TRUE)

\* ExistDBRepository._collection_exists, from the response to its HEAD.
collection_exists(r) ==
    IF ~r.received THEN TransportError
    ELSE IF raise_for_status(r)
         THEN IF r.status = HTTP_NOT_FOUND THEN Return(FALSE)
              ELSE HTTPStatusError(r.status)
    ELSE Return(TRUE)

\* ExistDBRepository.create_collection after an absent probe, from the
\* response to its collection PUT.
create_collection(r) ==
    IF ~r.received THEN TransportError
    ELSE IF raise_for_status(r) THEN HTTPStatusError(r.status)
    ELSE Return(None)

\* ExistDBRepository.put after create_collection, from the response to its
\* document PUT.
put(r) ==
    IF ~r.received THEN TransportError
    ELSE IF raise_for_status(r) THEN HTTPStatusError(r.status)
    ELSE Return(None)

\* ExistDBRepository.delete, from the response to its DELETE.
delete(r) ==
    IF ~r.received THEN TransportError
    ELSE IF raise_for_status(r) THEN HTTPStatusError(r.status)
    ELSE Return(None)

\* delete_collection with its 404 branch lost: a 404 is raised like any
\* other status.
delete_collection_raises_on_404(r) ==
    IF ~r.received THEN TransportError
    ELSE IF raise_for_status(r) THEN HTTPStatusError(r.status)
    ELSE Return(TRUE)

\* ExistDBRepository.delete_collection, from the response to its DELETE.
delete_collection(r) ==
    IF ~r.received THEN TransportError
    ELSE IF r.status = HTTP_NOT_FOUND THEN Return(FALSE)
    ELSE IF raise_for_status(r) THEN HTTPStatusError(r.status)
    ELSE Return(TRUE)

\* An XPath selecting the name of the first exist:resource element only.
LIST_DOCS_XPATH_first(elements) ==
    LET res == SelectSeq(elements, LAMBDA e : e.tag = "exist:resource")
    IN  IF res = <<>> THEN <<>> ELSE <<res[1].name>>

\* LIST_DOCS_XPATH, '//exist:resource/@name': the name attribute of every
\* exist:resource element, in document order.
LIST_DOCS_XPATH(elements) ==
    LET res == SelectSeq(elements, LAMBDA e : e.tag = "exist:resource")
    IN  [i \in DOMAIN res |-> res[i].name]

\* ExistDBRepository.list_documents, from the response to its GET.
list_documents(r) ==
    IF ~r.received THEN TransportError
    ELSE IF raise_for_status(r) THEN HTTPStatusError(r.status)
    ELSE IF ~r.body.wellformed THEN XMLSyntaxError
    ELSE Return(LIST_DOCS_XPATH(r.body.elements))

\* ----------------------------------------------------------- the service
\* What a service call gives its caller: a value, or a raised exception.
Returned(v) == [raised |-> "none", value |-> v]
Raised(e) == [raised |-> e, value |-> None]
NoOutcome == [raised |-> "pending", value |-> None]

\* The domain exceptions of app/domain/exceptions.py the service raises.
DomainErrors ==
    {"ValidationError", "ResourceAlreadyExistsError", "ResourceNotFoundError",
     "CollectionNotFoundError", "DatabaseError"}

\* The input check with the content left out of the list.
MissingInput_without_content(c, n, x) == ~(c # Empty /\ n # Empty)

\* create_document's input check: `not all([collection, document_name, content])`.
MissingInput(c, n, x) == ~(c # Empty /\ n # Empty /\ x # Empty)

\* ExistDBService.document_exists around repository.exists.
document_exists(res) ==
    IF res.exc = "none" THEN Returned(res.value)
    ELSE IF res.exc = "HTTPStatusError" THEN Raised("DatabaseError")
    ELSE Raised(res.exc)

\* create_document's handler around repository.put.
create_document_except(res) ==
    IF res.exc = "HTTPStatusError" THEN Raised("DatabaseError")
    ELSE Raised(res.exc)

\* get_document awaiting repository.get without returning its value.
get_document_drops_value(res) ==
    IF res.exc = "none" THEN Returned(None)
    ELSE IF res.exc = "HTTPStatusError"
         THEN IF res.status = HTTP_NOT_FOUND THEN Raised("ResourceNotFoundError")
              ELSE Raised("DatabaseError")
    ELSE Raised(res.exc)

\* ExistDBService.get_document around repository.get.
get_document(res) ==
    IF res.exc = "none" THEN Returned(res.value)
    ELSE IF res.exc = "HTTPStatusError"
         THEN IF res.status = HTTP_NOT_FOUND THEN Raised("ResourceNotFoundError")
              ELSE Raised("DatabaseError")
    ELSE Raised(res.exc)

\* update_document's handler without its 404 branch.
update_document_except_no_404(res) ==
    IF res.exc = "HTTPStatusError" THEN Raised("DatabaseError")
    ELSE Raised(res.exc)

\* update_document's handler around repository.get and repository.put.
update_document_except(res) ==
    IF res.exc = "HTTPStatusError"
    THEN IF res.status = HTTP_NOT_FOUND THEN Raised("ResourceNotFoundError")
         ELSE Raised("DatabaseError")
    ELSE Raised(res.exc)

\* delete_document with its 404 branch lost: every failing status is a
\* DatabaseError.
delete_document_no_404(res) ==
    IF res.exc = "none" THEN Returned(None)
    ELSE IF res.exc = "HTTPStatusError" THEN Raised("DatabaseError")
    ELSE Raised(res.exc)

\* ExistDBService.delete_document around repository.delete.
delete_document(res) ==
    IF res.exc = "none" THEN Returned(None)
    ELSE IF res.exc = "HTTPStatusError"
         THEN IF res.status = HTTP_NOT_FOUND THEN Raised("ResourceNotFoundError")
              ELSE Raised("DatabaseError")
    ELSE Raised(res.exc)

\* list_documents_in_collection raising the document's not-found error.
list_documents_in_collection_plain_404(res) ==
    IF res.exc = "none" THEN Returned(res.value)
    ELSE IF res.exc = "HTTPStatusError"
         THEN IF res.status = HTTP_NOT_FOUND THEN Raised("ResourceNotFoundError")
              ELSE Raised("DatabaseError")
    ELSE IF res.exc = "XMLSyntaxError" THEN Raised("DatabaseError")
    ELSE Raised(res.exc)

\* ExistDBService.list_documents_in_collection around repository.list_documents.
list_documents_in_collection(res) ==
    IF res.exc = "none" THEN Returned(res.value)
    ELSE IF res.exc = "HTTPStatusError"
         THEN IF res.status = HTTP_NOT_FOUND THEN Raised("CollectionNotFoundError")
              ELSE Raised("DatabaseError")
    ELSE IF res.exc = "XMLSyntaxError" THEN Raised("DatabaseError")
    ELSE Raised(res.exc)

\* The handler of the service method a repository.put runs under; a
\* create_collection called on the repository itself runs under none.
put_except(o, res) ==
    IF o = "create_document" THEN create_document_except(res)
    ELSE IF o = "update_document" THEN update_document_except(res)
    ELSE Raised(res.exc)

\* ------------------------------------------------------------- the calls
\* The calls a caller can make: the six service methods with their inputs
\* (create_document alone checks its inputs, so it alone is given empty
\* ones: every choice of which inputs are empty), and the repository's
\* create_collection and delete_collection.
Calls ==
    [op : {"create_document"}, collection : Collections,
     document_name : Names, content : Contents]
    \cup
    {c \in [op : {"create_document"}, collection : {Empty, "texts"},
            document_name : {Empty, "poem1"}, content : {Empty, "<tei/>"}] :
        Empty \in {c.collection, c.document_name, c.content}}
    \cup
    [op : {"update_document"}, collection : Collections,
     document_name : Names, content : Contents]
    \cup
    [op : {"get_document", "delete_document", "document_exists"},
     collection : Collections, document_name : Names, content : {Unused}]
    \cup
    [op : {"list_documents_in_collection", "create_collection", "delete_collection"},
     collection : Collections, document_name : {Unused}, content : {Unused}]

NoCall == [op |-> "none", collection |-> Unused, document_name |-> Unused,
           content |-> Unused]

Key(p) == <<call[p].collection, call[p].document_name>>

Request(method, path) == [method |-> method, path |-> path]

NoMutation == [kind |-> "none", content |-> Absent]

Init ==
    /\ colls \in SUBSET Collections
    /\ docs = [k \in Keys |-> Absent]
    /\ pc = [p \in Callers |-> "idle"]
    /\ call = [p \in Callers |-> NoCall]
    /\ outcome = [p \in Callers |-> NoOutcome]
    /\ reqs = [p \in Callers |-> <<>>]
    /\ answers = [p \in Callers |-> <<>>]
    /\ ncalls = 0
    /\ last = [k \in Keys |-> NoMutation]

\* The caller's coroutine ends with outcome o.
Finish(p, o) ==
    /\ pc' = [pc EXCEPT ![p] = "done"]
    /\ outcome' = [outcome EXCEPT ![p] = o]

\* The caller's coroutine goes on to its next request.
Goto(p, label) ==
    /\ pc' = [pc EXCEPT ![p] = label]
    /\ outcome' = outcome

Issue(p, method, path) == reqs' = [reqs EXCEPT ![p] = Append(@, Request(method, path))]

\* The answer r to the request the caller just issued: its status (0 when
\* there was no response), whether its body parsed, and whether the request
\* changed the store.
Answered(p, r, wellformed, changed) ==
    answers' = [answers EXCEPT ![p] =
                   Append(@, [status |-> r.status, wellformed |-> wellformed,
                              changed |-> changed])]

StoreUnchanged == UNCHANGED <<colls, docs, last>>

\* A caller invokes a method of the shared service (or repository).
Invoke(p) ==
    /\ pc[p] \in {"idle", "done"}
    /\ ncalls < MaxCalls
    /\ \E c \in Calls :
        /\ call' = [call EXCEPT ![p] = c]
        /\ pc' = [pc EXCEPT ![p] = c.op]
    /\ outcome' = [outcome EXCEPT ![p] = NoOutcome]
    /\ reqs' = [reqs EXCEPT ![p] = <<>>]
    /\ answers' = [answers EXCEPT ![p] = <<>>]
    /\ ncalls' = ncalls + 1
    /\ StoreUnchanged

\* create_document without its look-before-you-leap branch: the probe is
\* made and its answer ignored.
CreateDocument_ignores_probe(p, env) ==
    /\ pc[p] = "create_document"
    /\ IF MissingInput(call[p].collection, call[p].document_name, call[p].content)
       THEN /\ Finish(p, Raised("ValidationError"))
            /\ reqs' = reqs
            /\ answers' = answers
       ELSE \E r \in Answers(env, StoreHeadDocument(call[p].collection, call[p].document_name)) :
            LET found == document_exists(exists(r)) IN
            /\ Issue(p, "HEAD", "document")
            /\ Answered(p, r, TRUE, FALSE)
            /\ IF found.raised # "none" THEN Finish(p, found)
               ELSE Goto(p, "create_collection")
    /\ UNCHANGED <<call, ncalls>>
    /\ StoreUnchanged

\* create_document up to the end of its existence probe: the input check,
\* then document_exists (HEAD on the document path).
CreateDocument(p, env) ==
    /\ pc[p] = "create_document"
    /\ IF MissingInput(call[p].collection, call[p].document_name, call[p].content)
       THEN /\ Finish(p, Raised("ValidationError"))
            /\ reqs' = reqs
            /\ answers' = answers
       ELSE \E r \in Answers(env, StoreHeadDocument(call[p].collection, call[p].document_name)) :
            LET found == document_exists(exists(r)) IN
            /\ Issue(p, "HEAD", "document")
            /\ Answered(p, r, TRUE, FALSE)
            /\ IF found.raised # "none" THEN Finish(p, found)
               ELSE IF found.value THEN Finish(p, Raised("ResourceAlreadyExistsError"))
               ELSE Goto(p, "create_collection")
    /\ UNCHANGED <<call, ncalls>>
    /\ StoreUnchanged

\* create_collection returns: repository.put goes on to its document PUT; a
\* create_collection called on the repository itself is over.
CollectionEnsured(p) ==
    IF call[p].op = "create_collection" THEN Finish(p, Returned(None))
    ELSE Goto(p, "put")

\* create_collection that probes the collection and PUTs it whatever the
\* probe says.
CreateCollectionProbe_always_puts(p, env) ==
    /\ pc[p] = "create_collection"
    /\ \E r \in Answers(env, StoreHeadCollection(call[p].collection)) :
        LET res == collection_exists(r) IN
        /\ Issue(p, "HEAD", "collection")
        /\ Answered(p, r, TRUE, FALSE)
        /\ IF res.exc # "none" THEN Finish(p, put_except(call[p].op, res))
           ELSE Goto(p, "create_collection_put")
    /\ UNCHANGED <<call, ncalls>>
    /\ StoreUnchanged

\* create_collection that probes the collection and goes on without
\* creating it when it is absent.
CreateCollectionProbe_never_creates(p, env) ==
    /\ pc[p] = "create_collection"
    /\ \E r \in Answers(env, StoreHeadCollection(call[p].collection)) :
        LET res == collection_exists(r) IN
        /\ Issue(p, "HEAD", "collection")
        /\ Answered(p, r, TRUE, FALSE)
        /\ IF res.exc # "none" THEN Finish(p, put_except(call[p].op, res))
           ELSE CollectionEnsured(p)
    /\ UNCHANGED <<call, ncalls>>
    /\ StoreUnchanged

\* create_collection, first step, in repository.put or called on the
\* repository itself: it probes the collection (HEAD on the collection path).
CreateCollectionProbe(p, env) ==
    /\ pc[p] = "create_collection"
    /\ \E r \in Answers(env, StoreHeadCollection(call[p].collection)) :
        LET res == collection_exists(r) IN
        /\ Issue(p, "HEAD", "collection")
        /\ Answered(p, r, TRUE, FALSE)
        /\ IF res.exc # "none" THEN Finish(p, put_except(call[p].op, res))
           ELSE IF res.value THEN CollectionEnsured(p)
           ELSE Goto(p, "create_collection_put")
    /\ UNCHANGED <<call, ncalls>>
    /\ StoreUnchanged

\* create_collection taking a creation PUT on a collection that is already
\* there for a conflict and raising.
CreateCollectionPut_conflict(p, env) ==
    /\ pc[p] = "create_collection_put"
    /\ \E r \in Answers(env, StorePutCollection(call[p].collection)) :
        LET res == IF call[p].collection \in colls THEN HTTPStatusError(409)
                   ELSE create_collection(r) IN
        /\ Issue(p, "PUT", "collection")
        /\ IF Applied(r) THEN PutCollectionEffect(call[p].collection)
           ELSE UNCHANGED <<colls, docs>>
        /\ Answered(p, r, TRUE, colls' # colls \/ docs' # docs)
        /\ IF res.exc # "none" THEN Finish(p, put_except(call[p].op, res))
           ELSE CollectionEnsured(p)
    /\ UNCHANGED <<call, ncalls, last>>

\* create_collection found no collection: it PUTs one.
CreateCollectionPut(p, env) ==
    /\ pc[p] = "create_collection_put"
    /\ \E r \in Answers(env, StorePutCollection(call[p].collection)) :
        LET res == create_collection(r) IN
        /\ Issue(p, "PUT", "collection")
        /\ IF Applied(r) THEN PutCollectionEffect(call[p].collection)
           ELSE UNCHANGED <<colls, docs>>
        /\ Answered(p, r, TRUE, colls' # colls \/ docs' # docs)
        /\ IF res.exc # "none" THEN Finish(p, put_except(call[p].op, res))
           ELSE CollectionEnsured(p)
    /\ UNCHANGED <<call, ncalls, last>>

\* repository.put whose document PUT is a create-only one: the store keeps
\* the content of a document that is already there.
PutDocument_keeps_present(p, env) ==
    /\ pc[p] = "put"
    /\ \E r \in Answers(env, StorePutDocument(call[p].collection, call[p].document_name,
                                              call[p].content)) :
        LET res == put(r) IN
        /\ Issue(p, "PUT", "document")
        /\ IF Applied(r)
           THEN /\ IF docs[Key(p)] # Absent THEN UNCHANGED <<colls, docs>>
                   ELSE PutDocumentEffect(call[p].collection, call[p].document_name,
                                          call[p].content)
                /\ last' = [last EXCEPT ![Key(p)] =
                              [kind |-> call[p].op, content |-> call[p].content]]
           ELSE StoreUnchanged
        /\ Answered(p, r, TRUE, colls' # colls \/ docs' # docs)
        /\ IF res.exc # "none" THEN Finish(p, put_except(call[p].op, res))
           ELSE Finish(p, Returned(None))
    /\ UNCHANGED <<call, ncalls>>

\* repository.put sending its document PUT again when it fails.
PutDocument_retries(p, env) ==
    /\ pc[p] = "put"
    /\ \E r \in Answers(env, StorePutDocument(call[p].collection, call[p].document_name,
                                              call[p].content)) :
        LET res == put(r) IN
        /\ Issue(p, "PUT", "document")
        /\ IF Applied(r)
           THEN /\ PutDocumentEffect(call[p].collection, call[p].document_name, call[p].content)
                /\ last' = [last EXCEPT ![Key(p)] =
                              [kind |-> call[p].op, content |-> call[p].content]]
           ELSE StoreUnchanged
        /\ Answered(p, r, TRUE, colls' # colls \/ docs' # docs)
        /\ IF res.exc # "none" THEN Goto(p, "put")
           ELSE Finish(p, Returned(None))
    /\ UNCHANGED <<call, ncalls>>

\* repository.put, last step: the document PUT; then the service method
\* (create_document or update_document) returns.
PutDocument(p, env) ==
    /\ pc[p] = "put"
    /\ \E r \in Answers(env, StorePutDocument(call[p].collection, call[p].document_name,
                                              call[p].content)) :
        LET res == put(r) IN
        /\ Issue(p, "PUT", "document")
        /\ IF Applied(r)
           THEN /\ PutDocumentEffect(call[p].collection, call[p].document_name, call[p].content)
                /\ last' = [last EXCEPT ![Key(p)] =
                              [kind |-> call[p].op, content |-> call[p].content]]
           ELSE StoreUnchanged
        /\ Answered(p, r, TRUE, colls' # colls \/ docs' # docs)
        /\ IF res.exc # "none" THEN Finish(p, put_except(call[p].op, res))
           ELSE Finish(p, Returned(None))
    /\ UNCHANGED <<call, ncalls>>

\* get_document: repository.get (GET on the document path).
GetDocument(p, env) ==
    /\ pc[p] = "get_document"
    /\ \E r \in Answers(env, StoreGetDocument(call[p].collection, call[p].document_name)) :
        /\ Issue(p, "GET", "document")
        /\ Answered(p, r, TRUE, FALSE)
        /\ Finish(p, get_document(get(r)))
    /\ UNCHANGED <<call, ncalls>>
    /\ StoreUnchanged

\* update_document returning after its existence check, the put forgotten.
UpdateDocument_without_put(p, env) ==
    /\ pc[p] = "update_document"
    /\ \E r \in Answers(env, StoreGetDocument(call[p].collection, call[p].document_name)) :
        LET res == get(r) IN
        /\ Issue(p, "GET", "document")
        /\ Answered(p, r, TRUE, FALSE)
        /\ IF res.exc # "none" THEN Finish(p, update_document_except(res))
           ELSE Finish(p, Returned(None))
    /\ UNCHANGED <<call, ncalls>>
    /\ StoreUnchanged

\* update_document up to the end of its existence check: repository.get,
\* whose body is dropped.
UpdateDocument(p, env) ==
    /\ pc[p] = "update_document"
    /\ \E r \in Answers(env, StoreGetDocument(call[p].collection, call[p].document_name)) :
        LET res == get(r) IN
        /\ Issue(p, "GET", "document")
        /\ Answered(p, r, TRUE, FALSE)
        /\ IF res.exc # "none" THEN Finish(p, update_document_except(res))
           ELSE Goto(p, "create_collection")
    /\ UNCHANGED <<call, ncalls>>
    /\ StoreUnchanged

\* delete_document sending its DELETE to the collection path: the store
\* removes the collection with every document in it.
DeleteDocument_on_collection_path(p, env) ==
    /\ pc[p] = "delete_document"
    /\ \E r \in Answers(env, StoreDeleteDocument(call[p].collection, call[p].document_name)) :
        /\ Issue(p, "DELETE", "document")
        /\ IF Applied(r)
           THEN /\ DeleteCollectionEffect(call[p].collection)
                /\ last' = [last EXCEPT ![Key(p)] =
                              [kind |-> "delete_document", content |-> Absent]]
           ELSE UNCHANGED <<colls, docs, last>>
        /\ Answered(p, r, TRUE, colls' # colls \/ docs' # docs)
        /\ Finish(p, delete_document(delete(r)))
    /\ UNCHANGED <<call, ncalls>>

\* delete_document: repository.delete (DELETE on the document path).
DeleteDocument(p, env) ==
    /\ pc[p] = "delete_document"
    /\ \E r \in Answers(env, StoreDeleteDocument(call[p].collection, call[p].document_name)) :
        /\ Issue(p, "DELETE", "document")
        /\ IF Applied(r)
           THEN /\ DeleteDocumentEffect(call[p].collection, call[p].document_name)
                /\ last' = [last EXCEPT ![Key(p)] =
                              [kind |-> "delete_document", content |-> Absent]]
           ELSE UNCHANGED <<colls, docs, last>>
        /\ Answered(p, r, TRUE, colls' # colls \/ docs' # docs)
        /\ Finish(p, delete_document(delete(r)))
    /\ UNCHANGED <<call, ncalls>>

\* list_documents_in_collection materializing the collection it finds
\* missing.
ListDocumentsInCollection_creates(p, env) ==
    /\ pc[p] = "list_documents_in_collection"
    /\ \E r \in ListingAnswers(env, StoreGetCollection(call[p].collection)) :
        /\ Issue(p, "GET", "collection")
        /\ IF r.status = HTTP_NOT_FOUND THEN PutCollectionEffect(call[p].collection)
           ELSE UNCHANGED <<colls, docs>>
        /\ Answered(p, r, r.body.wellformed, colls' # colls)
        /\ Finish(p, list_documents_in_collection(list_documents(r)))
    /\ UNCHANGED <<call, ncalls, last>>

\* list_documents_in_collection: repository.list_documents (GET on the
\* collection path, then the parse of the listing).
ListDocumentsInCollection(p, env) ==
    /\ pc[p] = "list_documents_in_collection"
    /\ \E r \in ListingAnswers(env, StoreGetCollection(call[p].collection)) :
        /\ Issue(p, "GET", "collection")
        /\ Answered(p, r, r.body.wellformed, FALSE)
        /\ Finish(p, list_documents_in_collection(list_documents(r)))
    /\ UNCHANGED <<call, ncalls>>
    /\ StoreUnchanged

\* document_exists: repository.exists (HEAD on the document path).
DocumentExists(p, env) ==
    /\ pc[p] = "document_exists"
    /\ \E r \in Answers(env, StoreHeadDocument(call[p].collection, call[p].document_name)) :
        /\ Issue(p, "HEAD", "document")
        /\ Answered(p, r, TRUE, FALSE)
        /\ Finish(p, document_exists(exists(r)))
    /\ UNCHANGED <<call, ncalls>>
    /\ StoreUnchanged

\* repository.delete_collection, called on the repository itself: its
\* caller gets the boolean, or the exception as the repository raised it.
DeleteCollection(p, env) ==
    /\ pc[p] = "delete_collection"
    /\ \E r \in Answers(env, StoreDeleteCollection(call[p].collection)) :
        LET res == delete_collection(r) IN
        /\ Issue(p, "DELETE", "collection")
        /\ IF Applied(r)
           THEN /\ DeleteCollectionEffect(call[p].collection)
                /\ last' = [k \in Keys |->
                              IF k[1] = call[p].collection /\ last[k] # NoMutation
                              THEN [kind |-> "delete_collection", content |-> Absent]
                              ELSE last[k]]
           ELSE UNCHANGED <<colls, docs, last>>
        /\ Answered(p, r, TRUE, colls' # colls \/ docs' # docs)
        /\ IF res.exc # "none" THEN Finish(p, Raised(res.exc))
           ELSE Finish(p, Returned(res.value))
    /\ UNCHANGED <<call, ncalls>>

\* One round trip of one caller, answered as env allows.
Step(p, env) ==
    \/ Invoke(p)
    \/ CreateDocument(p, env)
    \/ CreateCollectionProbe(p, env)
    \/ CreateCollectionPut(p, env)
    \/ PutDocument(p, env)
    \/ GetDocument(p, env)
    \/ UpdateDocument(p, env)
    \/ DeleteDocument(p, env)
    \/ ListDocumentsInCollection(p, env)
    \/ DocumentExists(p, env)
    \/ DeleteCollection(p, env)

\* The store keeps its contract: every request gets the store's own answer.
Next == \E p \in Callers : Step(p, "contract")

\* Every request may also be answered with an error status or not at all.
NextFault == \E p \in Callers : Step(p, "faulty")

Spec == Init /\ [][Next]_vars

SpecFault == Init /\ [][NextFault]_vars

\* ------------------------------------------------------------------ query
\* ExistDBRepository.query.  An XQuery expression and the request body are
\* sequences of lexical pieces: runs of plain text and the pieces of XML
\* syntax an expression may contain.
MaxExprLen == 3

ExprPieces == {"doc()", "]]>", "<inject/>", "<![CDATA["}

RECURSIVE SeqsUpTo(_, _)
SeqsUpTo(S, n) ==
    IF n = 0 THEN {<<>>}
    ELSE LET shorter == SeqsUpTo(S, n - 1)
         IN  shorter \cup {Append(x, e) : x \in shorter, e \in S}

Expressions == SeqsUpTo(ExprPieces, MaxExprLen)

\* The f-string of query, stripped: the expression is put between the CDATA
\* markers as it is.
Envelope(xquery) ==
    <<"<query>", "<text>", "<![CDATA[">> \o xquery
        \o <<"]]>", "</text>", "<properties/>", "</query>">>

StartTags == {"<query>", "<text>"}
EndTags == {"</query>", "</text>"}
EmptyTags == {"<inject/>", "<properties/>"}
EndOf(tag) == IF tag = "<query>" THEN "</query>" ELSE "</text>"

\* The store's XML parser on a request body: the elements in document
\* order, each with its parent, the character data of the text element,
\* and whether the body is well-formed.  Inside a CDATA section every
\* piece up to the first "]]>" is character data; outside, markup is
\* markup and "]]>" is not allowed.
RECURSIVE ParseFrom(_, _, _)
ParseFrom(body, i, st) ==
    IF i > Len(body) THEN [st EXCEPT !.wellformed = @ /\ st.open = <<>> /\ ~st.cdata]
    ELSE IF ~st.wellformed THEN st
    ELSE LET t == body[i]
             top == IF st.open = <<>> THEN "none" ELSE st.open[Len(st.open)]
             chars == IF top = "<text>" THEN [st EXCEPT !.text = Append(@, t)] ELSE st
         IN  IF st.cdata
             THEN IF t = "]]>" THEN ParseFrom(body, i + 1, [st EXCEPT !.cdata = FALSE])
                  ELSE ParseFrom(body, i + 1, chars)
             ELSE IF t = "<![CDATA[" THEN ParseFrom(body, i + 1, [st EXCEPT !.cdata = TRUE])
             ELSE IF t = "]]>" THEN [st EXCEPT !.wellformed = FALSE]
             ELSE IF t \in StartTags
                  THEN ParseFrom(body, i + 1,
                           [st EXCEPT !.open = Append(@, t),
                                      !.elements = Append(@, [parent |-> top, tag |-> t])])
             ELSE IF t \in EmptyTags
                  THEN ParseFrom(body, i + 1,
                           [st EXCEPT !.elements = Append(@, [parent |-> top, tag |-> t])])
             ELSE IF t \in EndTags
                  THEN IF top # "none" /\ EndOf(top) = t
                       THEN ParseFrom(body, i + 1,
                                [st EXCEPT !.open = SubSeq(@, 1, Len(@) - 1)])
                       ELSE [st EXCEPT !.wellformed = FALSE]
             ELSE ParseFrom(body, i + 1, chars)

Parse(body) ==
    ParseFrom(body, 1, [wellformed |-> TRUE, cdata |-> FALSE, open |-> <<>>,
                        text |-> <<>>, elements |-> <<>>])

\* The store's answer to a query POST: it runs the character data of the
\* text element and answers with the result, here the text it ran; a body
\* that is not well-formed is refused.
StorePostQuery(body) ==
    IF Parse(body).wellformed THEN Response(200, Parse(body).text)
    ELSE Response(400, <<>>)

\* ExistDBRepository.query, from the response to its POST.
query(r) ==
    IF ~r.received THEN TransportError
    ELSE IF raise_for_status(r) THEN HTTPStatusError(r.status)
    ELSE Return(r.body)

\* A caller calls query on the shared repository.
InvokeQuery(p) ==
    /\ pc[p] \in {"idle", "done"}
    /\ ncalls < MaxCalls
    /\ \E x \in Expressions :
        call' = [call EXCEPT ![p] = [op |-> "query", collection |-> Unused,
                                     document_name |-> Unused, content |-> x]]
    /\ pc' = [pc EXCEPT ![p] = "query"]
    /\ outcome' = [outcome EXCEPT ![p] = NoOutcome]
    /\ reqs' = [reqs EXCEPT ![p] = <<>>]
    /\ answers' = [answers EXCEPT ![p] = <<>>]
    /\ ncalls' = ncalls + 1
    /\ StoreUnchanged

\* query: the envelope is built and POSTed to the root path; the caller
\* gets the response text, or the exception as the repository raised it.
Query(p) ==
    /\ pc[p] = "query"
    /\ LET content == Envelope(call[p].content)
           r == StorePostQuery(content)
           res == query(r)
       IN  /\ reqs' = [reqs EXCEPT ![p] =
                          Append(@, [method |-> "POST", path |-> "root", body |-> content])]
           /\ Answered(p, r, TRUE, FALSE)
           /\ IF res.exc # "none" THEN Finish(p, Raised(res.exc))
              ELSE Finish(p, Returned(res.value))
    /\ UNCHANGED <<call, ncalls>>
    /\ StoreUnchanged

NextQuery == \E p \in Callers : InvokeQuery(p) \/ Query(p)

SpecQuery == Init /\ [][NextQuery]_vars

\* ------------------------------------------------------------ properties
\* Caller p is in service method o and its call has ended.
Ended(p, o) == pc[p] = "done" /\ call[p].op = o

\* Caller p issues the request it stands at (label) in this step.
Issues(p, label) == pc[p] = label /\ pc'[p] # label

\* Outcome o is the expected one (the kind first: values of different
\* kinds of outcome are not compared).
Gives(o, expected) == o.raised = expected.raised /\ o.value = expected.value

\* The key was never created: the store never applied a mutation to it.
NeverCreated(k) == last[k].kind = "none"

HeadDocument == Request("HEAD", "document")
GetDocumentRequest == Request("GET", "document")

\* C1: a get_document issued while the last mutation of its key is a
\* successful create_document returns exactly the content that call wrote.
C1_RoundTrip ==
    [][\A p \in Callers :
         (Issues(p, "get_document") /\ last[Key(p)].kind = "create_document")
             => Gives(outcome'[p], Returned(last[Key(p)].content))]_vars

C1_Witness ==
    \E p \in Callers :
        /\ Ended(p, "get_document")
        /\ last[Key(p)].kind = "create_document"
        /\ Gives(outcome[p], Returned(last[Key(p)].content))
        /\ reqs[p] = <<GetDocumentRequest>>

\* C2: a create_document with valid inputs for a key whose last mutation is
\* a successful create_document raises ResourceAlreadyExistsError after the
\* existence probe alone, and the store keeps the first call's content,
\* whichever content the second call carries.
C2_SecondCreateFails ==
    [][\A p \in Callers :
         (/\ Issues(p, "create_document")
          /\ ~MissingInput(call[p].collection, call[p].document_name, call[p].content)
          /\ last[Key(p)].kind = "create_document")
             => /\ Gives(outcome'[p], Raised("ResourceAlreadyExistsError"))
                /\ pc'[p] = "done"
                /\ reqs'[p] = <<HeadDocument>>
                /\ docs' = docs
                /\ docs'[Key(p)] = last[Key(p)].content
                /\ last' = last]_vars

C2_Witness ==
    \E p \in Callers :
        /\ Ended(p, "create_document")
        /\ Gives(outcome[p], Raised("ResourceAlreadyExistsError"))
        /\ reqs[p] = <<HeadDocument>>
        /\ last[Key(p)].kind = "create_document"
        /\ call[p].content # last[Key(p)].content
        /\ docs[Key(p)] = last[Key(p)].content

\* C3: the document PUT of a create_document is never applied to a
\* document that is present in the store at the moment of the PUT.
C3_CreateNeverOverwrites ==
    [][\A p \in Callers :
         (Issues(p, "put") /\ call[p].op = "create_document")
             => docs[Key(p)] = Absent]_vars

\* C4: get_document, update_document and delete_document on a key that was
\* never created end with ResourceNotFoundError, whether or not the
\* collection exists.
C4_NeverCreatedIsNotFound ==
    \A p \in Callers :
        (/\ pc[p] = "done"
         /\ call[p].op \in {"get_document", "update_document", "delete_document"}
         /\ NeverCreated(Key(p)))
            => Gives(outcome[p], Raised("ResourceNotFoundError"))

C4_Witness ==
    \E p, q \in Callers :
        /\ Ended(p, "update_document") /\ Ended(q, "delete_document")
        /\ Key(p) = Key(q) /\ NeverCreated(Key(p))
        /\ Gives(outcome[p], Raised("ResourceNotFoundError"))
        /\ Gives(outcome[q], Raised("ResourceNotFoundError"))
        /\ call[p].collection \in colls

\* C5: an update_document that returns has replaced the stored content by
\* its new content, and a get_document issued while that update is the
\* last mutation of the key returns the new content.
C5_UpdateReplaces ==
    [][\A p \in Callers :
         /\ (pc'[p] = "done" /\ pc[p] # "done" /\ call[p].op = "update_document"
             /\ Gives(outcome'[p], Returned(None)))
                => docs'[Key(p)] = call[p].content
         /\ (Issues(p, "get_document") /\ last[Key(p)].kind = "update_document")
                => Gives(outcome'[p], Returned(last[Key(p)].content))]_vars

C5_Witness ==
    \E p, q \in Callers :
        /\ Ended(p, "get_document")
        /\ last[Key(p)].kind = "update_document"
        /\ Gives(outcome[p], Returned(last[Key(p)].content))
        /\ Ended(q, "create_document") /\ Key(q) = Key(p)
        /\ Gives(outcome[q], Returned(None))
        /\ call[q].content # last[Key(p)].content

\* C6: document_exists returns False for a key never created, True while
\* the last mutation of the key is a successful create_document and False
\* while it is a successful delete_document; after that delete_document a
\* get_document raises ResourceNotFoundError.
C6_ExistsTracksLifecycle ==
    [][\A p \in Callers :
         /\ (Issues(p, "document_exists") /\ NeverCreated(Key(p)))
                => Gives(outcome'[p], Returned(FALSE))
         /\ (Issues(p, "document_exists") /\ last[Key(p)].kind = "create_document")
                => Gives(outcome'[p], Returned(TRUE))
         /\ (Issues(p, "document_exists") /\ last[Key(p)].kind = "delete_document")
                => Gives(outcome'[p], Returned(FALSE))
         /\ (Issues(p, "get_document") /\ last[Key(p)].kind = "delete_document")
                => Gives(outcome'[p], Raised("ResourceNotFoundError"))]_vars

C6_Witness ==
    \E p, q \in Callers :
        /\ Ended(p, "document_exists")
        /\ last[Key(p)].kind = "delete_document"
        /\ Gives(outcome[p], Returned(FALSE))
        /\ Ended(q, "delete_document") /\ Key(q) = Key(p)
        /\ Gives(outcome[q], Returned(None))

\* C7: list_documents_in_collection returns the empty list for a collection
\* that exists and holds no document, and raises CollectionNotFoundError
\* for a collection that does not exist.
C7_ListEmptyOrMissing ==
    [][\A p \in Callers :
         Issues(p, "list_documents_in_collection")
             => /\ (call[p].collection \in colls
                    /\ \A n \in Names : docs[<<call[p].collection, n>>] = Absent)
                       => Gives(outcome'[p], Returned(<<>>))
                /\ call[p].collection \notin colls
                       => Gives(outcome'[p], Raised("CollectionNotFoundError"))]_vars

C7_Witness ==
    \E p, q \in Callers :
        /\ Ended(p, "list_documents_in_collection")
        /\ Ended(q, "list_documents_in_collection")
        /\ Gives(outcome[p], Returned(<<>>))
        /\ Gives(outcome[q], Raised("CollectionNotFoundError"))

\* C8: create_document with an empty collection, name or content raises
\* ValidationError before any request: the call issues none and the store
\* stays as it was.
C8_ValidationBeforeNetwork ==
    [][\A p \in Callers :
         (/\ Issues(p, "create_document")
          /\ \/ call[p].collection = Empty
             \/ call[p].document_name = Empty
             \/ call[p].content = Empty)
             => /\ Gives(outcome'[p], Raised("ValidationError"))
                /\ pc'[p] = "done"
                /\ reqs'[p] = <<>>
                /\ colls' = colls /\ docs' = docs]_vars

C8_Witness ==
    \E p \in Callers :
        /\ Ended(p, "create_document")
        /\ call[p].collection # Empty /\ call[p].document_name # Empty
        /\ call[p].content = Empty
        /\ Gives(outcome[p], Raised("ValidationError"))
        /\ reqs[p] = <<>>

ServiceMethods ==
    {"create_document", "get_document", "update_document", "delete_document",
     "list_documents_in_collection", "document_exists"}

\* C9: every service call ends with its normal result or with one of the
\* five domain errors, whatever each request was answered, no answer at
\* all included.
C9_ClosedFaultTaxonomy ==
    \A p \in Callers :
        (pc[p] = "done" /\ call[p].op \in ServiceMethods)
            => outcome[p].raised \in {"none"} \cup DomainErrors

\* C10: update_document raises ResourceNotFoundError only when its
\* existence check, the GET, was answered 404: a call that went on to the
\* put never ends with ResourceNotFoundError.
C10_UpdateNotFoundOnlyFromGet ==
    \A p \in Callers :
        (Ended(p, "update_document") /\ Gives(outcome[p], Raised("ResourceNotFoundError")))
            => reqs[p] = <<GetDocumentRequest>>

HeadCollection == Request("HEAD", "collection")
PutCollection == Request("PUT", "collection")
PutDocumentRequest == Request("PUT", "document")
DeleteCollectionRequest == Request("DELETE", "collection")

Success == 200..299

\* The i-th request of caller p's call was answered 404 by a method that
\* takes 404 for "absent": exists, _collection_exists, delete_collection.
Absorbed(p, i) ==
    /\ answers[p][i].status = HTTP_NOT_FOUND
    /\ reqs[p][i] \in {HeadDocument, HeadCollection, DeleteCollectionRequest}

\* The i-th step of caller p's call faulted: no 2xx answer (another status,
\* or no response at all), or a body that does not parse; an absorbed 404
\* is no fault.
Faulted(p, i) ==
    /\ answers[p][i].status \notin Success \/ ~answers[p][i].wellformed
    /\ ~Absorbed(p, i)

\* C11: a create_document with valid inputs whose existence probe faults
\* raises DatabaseError and issues no further request; one whose probe
\* reports absence raises DatabaseError when a step of the write faults,
\* and never ResourceNotFoundError or ResourceAlreadyExistsError.
C11_CreateFaultsAreInfrastructure ==
    \A p \in Callers :
        (Ended(p, "create_document") /\ reqs[p] # <<>>)
            => /\ Faulted(p, 1)
                   => Gives(outcome[p], Raised("DatabaseError")) /\ Len(reqs[p]) = 1
               /\ answers[p][1].status = HTTP_NOT_FOUND
                   => /\ (\E i \in 2..Len(reqs[p]) : Faulted(p, i))
                          => Gives(outcome[p], Raised("DatabaseError"))
                      /\ outcome[p].raised \notin
                             {"ResourceNotFoundError", "ResourceAlreadyExistsError"}

\* C12: a creation PUT of create_collection, issued after its probe saw no
\* collection, never makes the call fail, whether or not another caller
\* has created the collection in between: create_collection returns, the
\* collection exists after the PUT and every document is as it was.
C12_CreateCollectionToleratesRace ==
    [][\A p \in Callers :
         Issues(p, "create_collection_put")
             => /\ call[p].collection \in colls'
                /\ docs' = docs
                /\ IF call[p].op = "create_collection"
                   THEN pc'[p] = "done" /\ Gives(outcome'[p], Returned(None))
                   ELSE pc'[p] = "put"]_vars

\* Two callers both saw the collection absent and both PUT it; the second
\* PUT changed nothing, both calls returned and the document written in
\* between is still there.
C12_Witness ==
    \E p, q \in Callers :
        /\ Ended(p, "create_collection") /\ Ended(q, "create_document")
        /\ call[p].collection = call[q].collection
        /\ reqs[p] = <<HeadCollection, PutCollection>>
        /\ reqs[q] = <<HeadDocument, HeadCollection, PutCollection, PutDocumentRequest>>
        /\ answers[p][1].status = HTTP_NOT_FOUND /\ answers[q][2].status = HTTP_NOT_FOUND
        /\ ~answers[p][2].changed /\ answers[q][3].changed
        /\ Gives(outcome[p], Returned(None)) /\ Gives(outcome[q], Returned(None))
        /\ call[p].collection \in colls
        /\ docs[Key(q)] = call[q].content

\* C13: delete_collection returns False when its DELETE is answered 404 and
\* True exactly when it is answered 2xx; a True answer means the collection
\* was there and is gone, and a call on an absent collection never returns
\* True and leaves the store as it was.
C13_DeleteCollectionBoolean ==
    [][\A p \in Callers :
         Issues(p, "delete_collection")
             => /\ pc'[p] = "done"
                /\ answers'[p][1].status = HTTP_NOT_FOUND
                       => Gives(outcome'[p], Returned(FALSE))
                /\ Gives(outcome'[p], Returned(TRUE)) <=> answers'[p][1].status \in Success
                /\ answers'[p][1].status \in Success
                       => call[p].collection \in colls /\ call[p].collection \notin colls'
                /\ call[p].collection \notin colls
                       => /\ ~Gives(outcome'[p], Returned(TRUE))
                          /\ colls' = colls /\ docs' = docs]_vars

\* Two delete_collection calls in a row on a collection that was there: one
\* returned True, the other, answered 404, returned False.
C13_Witness ==
    \E p, q \in Callers :
        /\ Ended(p, "delete_collection") /\ Ended(q, "delete_collection")
        /\ call[p].collection = call[q].collection
        /\ ncalls = 2
        /\ Gives(outcome[p], Returned(TRUE)) /\ answers[p][1].changed
        /\ Gives(outcome[q], Returned(FALSE)) /\ answers[q][1].status = HTTP_NOT_FOUND
        /\ call[p].collection \notin colls

\* C14: no call issues more than four requests or the same request twice;
\* a step that faults is the last step of its call, and the call has ended
\* with an exception.
C14_NoRetryFaultsTerminal ==
    \A p \in Callers :
        /\ Len(reqs[p]) <= 4
        /\ \A i, j \in 1..Len(reqs[p]) : i # j => reqs[p][i] # reqs[p][j]
        /\ \A i \in 1..Len(reqs[p]) :
               Faulted(p, i)
                   => /\ i = Len(reqs[p])
                      /\ pc[p] = "done"
                      /\ outcome[p].raised \notin {"none", "pending"}

\* One call ran through its four requests and returned; another ended at
\* its second request, the first that faulted.
C14_Witness ==
    \E p, q \in Callers :
        /\ Ended(p, "update_document") /\ Gives(outcome[p], Returned(None))
        /\ reqs[p] = <<GetDocumentRequest, HeadCollection, PutCollection, PutDocumentRequest>>
        /\ Ended(q, "create_document")
        /\ reqs[q] = <<HeadDocument, HeadCollection>>
        /\ Faulted(q, 2)
        /\ Gives(outcome[q], Raised("DatabaseError"))

\* C15: the outcome of get_document and of delete_document is decided by
\* the status their one request is answered with: 404 raises
\* ResourceNotFoundError, any other non-2xx status raises DatabaseError, a
\* 2xx status gives the stored body for get_document and None for
\* delete_document.
C15_StatusDecidesGetAndDelete ==
    [][\A p \in Callers :
         (Issues(p, "get_document") \/ Issues(p, "delete_document"))
             => /\ pc'[p] = "done" /\ Len(reqs'[p]) = 1
                /\ answers'[p][1].status = HTTP_NOT_FOUND
                       => Gives(outcome'[p], Raised("ResourceNotFoundError"))
                /\ answers'[p][1].status \notin Success \cup {HTTP_NOT_FOUND, NoResponse.status}
                       => Gives(outcome'[p], Raised("DatabaseError"))
                /\ answers'[p][1].status \in Success
                       => Gives(outcome'[p],
                                IF call[p].op = "get_document" THEN Returned(docs[Key(p)])
                                ELSE Returned(None))]_vars

\* A get_document answered 2xx returned the body, and a delete_document
\* answered 500 raised DatabaseError.
C15_Witness ==
    \E p, q \in Callers :
        /\ Ended(p, "get_document") /\ answers[p][1].status \in Success
        /\ outcome[p].raised = "none" /\ outcome[p].value \in Contents
        /\ Ended(q, "delete_document") /\ answers[q][1].status = 500
        /\ Gives(outcome[q], Raised("DatabaseError"))

GetCollection == Request("GET", "collection")

\* C16: list_documents_in_collection raises CollectionNotFoundError when
\* its request is answered 404, DatabaseError when it is answered another
\* non-2xx status or 2xx with a body that is not well-formed XML, and never
\* ResourceNotFoundError.
C16_ListFaultKinds ==
    \A p \in Callers :
        Ended(p, "list_documents_in_collection")
            => /\ reqs[p] = <<GetCollection>>
               /\ answers[p][1].status = HTTP_NOT_FOUND
                      => Gives(outcome[p], Raised("CollectionNotFoundError"))
               /\ answers[p][1].status \notin Success \cup {HTTP_NOT_FOUND, NoResponse.status}
                      => Gives(outcome[p], Raised("DatabaseError"))
               /\ (answers[p][1].status \in Success /\ ~answers[p][1].wellformed)
                      => Gives(outcome[p], Raised("DatabaseError"))
               /\ (answers[p][1].status \in Success /\ answers[p][1].wellformed)
                      => outcome[p].raised = "none"
               /\ outcome[p].raised # "ResourceNotFoundError"

\* One listing was answered 2xx with a malformed body, another 404.
C16_Witness ==
    \E p, q \in Callers :
        /\ Ended(p, "list_documents_in_collection")
        /\ answers[p][1].status \in Success /\ ~answers[p][1].wellformed
        /\ Gives(outcome[p], Raised("DatabaseError"))
        /\ Ended(q, "list_documents_in_collection")
        /\ answers[q][1].status = HTTP_NOT_FOUND
        /\ Gives(outcome[q], Raised("CollectionNotFoundError"))

\* C17: document_exists returns False when its HEAD is answered 404 and
\* True when it is answered 2xx, raises DatabaseError on any other status
\* and never ResourceNotFoundError; the probe of create_document reads
\* exists the same way: 2xx is "present", 404 is "absent" and the call goes
\* on, any other status ends it with DatabaseError.
C17_ExistsMapsStatuses ==
    \A p \in Callers :
        /\ Ended(p, "document_exists")
               => /\ reqs[p] = <<HeadDocument>>
                  /\ answers[p][1].status = HTTP_NOT_FOUND
                         => Gives(outcome[p], Returned(FALSE))
                  /\ answers[p][1].status \in Success
                         => Gives(outcome[p], Returned(TRUE))
                  /\ answers[p][1].status \notin
                             Success \cup {HTTP_NOT_FOUND, NoResponse.status}
                         => Gives(outcome[p], Raised("DatabaseError"))
                  /\ outcome[p].raised # "ResourceNotFoundError"
        /\ (Ended(p, "create_document") /\ reqs[p] # <<>>)
               => /\ answers[p][1].status = HTTP_NOT_FOUND => Len(reqs[p]) > 1
                  /\ answers[p][1].status \in Success
                         => /\ Gives(outcome[p], Raised("ResourceAlreadyExistsError"))
                            /\ Len(reqs[p]) = 1
                  /\ answers[p][1].status \notin
                             Success \cup {HTTP_NOT_FOUND, NoResponse.status}
                         => /\ Gives(outcome[p], Raised("DatabaseError"))
                            /\ Len(reqs[p]) = 1

\* A document_exists answered 2xx returned True, and the probe of a
\* create_document answered 500 raised DatabaseError.
C17_Witness ==
    \E p, q \in Callers :
        /\ Ended(p, "document_exists") /\ answers[p][1].status \in Success
        /\ Gives(outcome[p], Returned(TRUE))
        /\ Ended(q, "create_document") /\ reqs[q] = <<HeadDocument>>
        /\ answers[q][1].status = 500
        /\ Gives(outcome[q], Raised("DatabaseError"))

\* C18: every document of the store lies in a collection of the store, and
\* repository.put issues its document PUT only right after a collection
\* probe answered 2xx or a collection creation answered 2xx: a call whose
\* collection step faulted stands at no document PUT and has issued none.
C18_DocumentsLieInCollections ==
    /\ \A k \in Keys : docs[k] # Absent => k[1] \in colls
    /\ \A p \in Callers :
           LET ensured(i) ==
                   /\ i >= 1
                   /\ reqs[p][i] \in {HeadCollection, PutCollection}
                   /\ answers[p][i].status \in Success
           IN  /\ pc[p] = "put" => ensured(Len(reqs[p]))
               /\ \A i \in 1..Len(reqs[p]) :
                      reqs[p][i] = PutDocumentRequest => ensured(i - 1)

\* A create_document went through the creation of the collection to its
\* document PUT and the document is stored; another call ended when its
\* collection creation was answered 500, with no document PUT.
C18_Witness ==
    \E p, q \in Callers :
        /\ Ended(p, "create_document")
        /\ reqs[p] = <<HeadDocument, HeadCollection, PutCollection, PutDocumentRequest>>
        /\ answers[p][3].status \in Success /\ answers[p][4].status \in Success
        /\ docs[Key(p)] = call[p].content /\ call[p].collection \in colls
        /\ Ended(q, "create_document")
        /\ reqs[q] = <<HeadDocument, HeadCollection, PutCollection>>
        /\ answers[q][3].status = 500
        /\ Gives(outcome[q], Raised("DatabaseError"))

\* C19: update_document never brings a document into existence: the store
\* applies its document PUT only to a document that is present at the
\* moment of the PUT, whatever delete_document and delete_collection calls
\* run beside it.
C19_UpdateNeverCreates ==
    [][\A p \in Callers :
         (Issues(p, "put") /\ call[p].op = "update_document" /\ docs'[Key(p)] # Absent)
             => docs[Key(p)] # Absent]_vars

\* C20: a service call that ended with ValidationError,
\* ResourceAlreadyExistsError, ResourceNotFoundError or
\* CollectionNotFoundError changed nothing in the store: none of its
\* requests changed a document or created or removed a collection.
C20_FailedCallLeavesStore ==
    \A p \in Callers :
        (/\ pc[p] = "done"
         /\ call[p].op \in ServiceMethods
         /\ outcome[p].raised \in {"ValidationError", "ResourceAlreadyExistsError",
                                   "ResourceNotFoundError", "CollectionNotFoundError"})
            => \A i \in 1..Len(answers[p]) : ~answers[p][i].changed

\* Caller p takes a step of its call (or invokes one).
Steps(p) == pc'[p] # pc[p]

ReadAndDeleteMethods ==
    {"get_document", "document_exists", "list_documents_in_collection", "delete_document"}

\* C21: a step of get_document, document_exists,
\* list_documents_in_collection or delete_document issues no PUT and adds
\* no collection to the store, whatever it is answered; a collection
\* appears in the store only in a step of create_document, update_document
\* or of create_collection called on the repository.
C21_AutoCreationOnWriteOnly ==
    [][/\ \A p \in Callers :
            (Steps(p) /\ call[p].op \in ReadAndDeleteMethods)
                => /\ colls' \subseteq colls
                   /\ \A i \in 1..Len(reqs'[p]) : reqs'[p][i].method # "PUT"
       /\ ~(colls' \subseteq colls)
            => \E p \in Callers :
                   /\ Steps(p)
                   /\ call[p].op \in {"create_document", "update_document",
                                      "create_collection"}]_vars

\* A delete_document and a list_documents_in_collection on a collection
\* that is not there both failed, and the collection is still not there.
C21_Witness ==
    \E p, q \in Callers :
        /\ Ended(p, "delete_document") /\ Ended(q, "list_documents_in_collection")
        /\ call[p].collection = call[q].collection
        /\ reqs[p] = <<Request("DELETE", "document")>> /\ reqs[q] = <<GetCollection>>
        /\ Gives(outcome[p], Raised("ResourceNotFoundError"))
        /\ Gives(outcome[q], Raised("CollectionNotFoundError"))
        /\ call[p].collection \notin colls

\* C22: create_collection on a collection that is there returns after its
\* HEAD probe alone, with no PUT and the store as it was; no step of
\* create_collection changes a document or removes a collection, and the
\* collection is there when the call returns: a further call in sequence
\* finds it and changes nothing.
C22_CreateCollectionIdempotent ==
    [][\A p \in Callers :
         (Steps(p) /\ call[p].op = "create_collection")
             => /\ docs' = docs
                /\ colls \subseteq colls'
                /\ colls' \subseteq colls \cup {call[p].collection}
                /\ (Issues(p, "create_collection") /\ call[p].collection \in colls)
                       => /\ pc'[p] = "done"
                          /\ Gives(outcome'[p], Returned(None))
                          /\ reqs'[p] = <<HeadCollection>>
                          /\ colls' = colls
                /\ (pc'[p] = "done" /\ pc[p] # "idle")
                       => call[p].collection \in colls'
                          /\ Gives(outcome'[p], Returned(None))]_vars

\* A create_collection created the collection, a document was written to
\* it, and a second create_collection returned after its probe alone, the
\* document still there.
C22_Witness ==
    \E p, q \in Callers :
        /\ Ended(q, "create_collection") /\ reqs[q] = <<HeadCollection, PutCollection>>
        /\ answers[q][2].changed
        /\ Ended(p, "create_collection") /\ reqs[p] = <<HeadCollection>>
        /\ call[p].collection = call[q].collection
        /\ Gives(outcome[p], Returned(None))
        /\ \E n \in Names : docs[<<call[p].collection, n>>] # Absent

\* C23: a create_document or update_document whose put created the missing
\* collection and whose document PUT then faulted issued no request after
\* that PUT and no DELETE at all, so the new collection is left behind, and
\* the call ended with DatabaseError.
C23_NoRollbackOnlyFault ==
    \A p \in Callers :
        (/\ pc[p] = "done"
         /\ call[p].op \in {"create_document", "update_document"}
         /\ \E i \in 1..Len(reqs[p]) : reqs[p][i] = PutCollection /\ answers[p][i].changed
         /\ \E i \in 1..Len(reqs[p]) : reqs[p][i] = PutDocumentRequest /\ Faulted(p, i))
            => /\ reqs[p][Len(reqs[p])] = PutDocumentRequest
               /\ \A i \in 1..Len(reqs[p]) : reqs[p][i].method # "DELETE"
               /\ Gives(outcome[p], Raised("DatabaseError"))

DocumentMethods ==
    {"create_document", "get_document", "update_document", "delete_document",
     "document_exists"}

\* C24: a step of a service method on one key leaves every document under
\* another key as it is, and what the step does is decided by the document
\* under its own key alone, in whatever state the other keys and the
\* collection are: the probes and checks read the own document, and a call
\* that went past them returns None.
C24_KeysIndependent ==
    [][\A p \in Callers :
         (Steps(p) /\ call[p].op \in DocumentMethods /\ Key(p) \in Keys /\ pc[p] # "done")
             => /\ \A k \in Keys \ {Key(p)} : docs'[k] = docs[k]
                /\ (pc[p] = "create_document" /\ call[p].content # Empty)
                       => IF docs[Key(p)] # Absent
                          THEN Gives(outcome'[p], Raised("ResourceAlreadyExistsError"))
                          ELSE pc'[p] = "create_collection"
                /\ pc[p] = "update_document"
                       => IF docs[Key(p)] # Absent
                          THEN pc'[p] = "create_collection"
                          ELSE Gives(outcome'[p], Raised("ResourceNotFoundError"))
                /\ pc[p] = "get_document"
                       => IF docs[Key(p)] # Absent
                          THEN Gives(outcome'[p], Returned(docs[Key(p)]))
                          ELSE Gives(outcome'[p], Raised("ResourceNotFoundError"))
                /\ pc[p] = "delete_document"
                       => IF docs[Key(p)] # Absent
                          THEN Gives(outcome'[p], Returned(None))
                          ELSE Gives(outcome'[p], Raised("ResourceNotFoundError"))
                /\ pc[p] = "document_exists"
                       => Gives(outcome'[p], Returned(docs[Key(p)] # Absent))
                /\ (pc[p] \in {"create_collection", "create_collection_put", "put"}
                    /\ pc'[p] = "done")
                       => Gives(outcome'[p], Returned(None))
                /\ pc[p] = "put" => pc'[p] = "done" /\ docs'[Key(p)] = call[p].content]_vars

\* Two create_document calls on two documents of one missing collection ran
\* interleaved, each through the creation of the collection, and each
\* document holds the content of its own call.
C24_Witness ==
    \E p, q \in Callers :
        /\ Ended(p, "create_document") /\ Ended(q, "create_document")
        /\ call[p].collection = call[q].collection
        /\ call[p].document_name # call[q].document_name
        /\ call[p].content # call[q].content
        /\ PutCollection \in {reqs[p][i] : i \in 1..Len(reqs[p])}
        /\ PutCollection \in {reqs[q][i] : i \in 1..Len(reqs[q])}
        /\ Gives(outcome[p], Returned(None)) /\ Gives(outcome[q], Returned(None))
        /\ docs[Key(p)] = call[p].content /\ docs[Key(q)] = call[q].content

\* C25: while the last mutation the store applied to a key is the document
\* PUT of an update_document, the stored content is exactly the content of
\* that call, whatever other update_document calls on the key ran beside
\* it and whichever of them returned last.
C25_LastWriteWins ==
    \A k \in Keys :
        last[k].kind = "update_document" => docs[k] = last[k].content

\* Two update_document calls with different contents on one document both
\* returned; the document holds the content of the PUT applied last.
C25_Witness ==
    \E p, q \in Callers :
        /\ p # q
        /\ Ended(p, "update_document") /\ Ended(q, "update_document")
        /\ Key(p) = Key(q) /\ call[p].content # call[q].content
        /\ Gives(outcome[p], Returned(None)) /\ Gives(outcome[q], Returned(None))
        /\ last[Key(p)].kind = "update_document"
        /\ docs[Key(p)] = last[Key(p)].content
        /\ docs[Key(p)] = call[q].content

\* C26: a list_documents_in_collection on a collection that is there
\* returns the names of the documents present in it at that moment, each
\* once: a name whose last mutation is a successful create_document is in
\* the list, a name never created or whose last mutation is a successful
\* delete_document is not.
C26_ListIsExact ==
    [][\A p \in Callers :
         (Issues(p, "list_documents_in_collection") /\ call[p].collection \in colls)
             => /\ outcome'[p].raised = "none"
                /\ LET c == call[p].collection
                       listed == {outcome'[p].value[i] : i \in 1..Len(outcome'[p].value)}
                   IN  /\ listed = {n \in Names : docs[<<c, n>>] # Absent}
                       /\ Len(outcome'[p].value) = Cardinality(listed)
                       /\ \A n \in Names :
                              /\ last[<<c, n>>].kind = "create_document" => n \in listed
                              /\ last[<<c, n>>].kind \in {"none", "delete_document"}
                                     => n \notin listed]_vars

\* One document was created and the other name never; the listing names
\* the created document alone.
C26_Witness ==
    \E p \in Callers : \E n, m \in Names :
        /\ Ended(p, "list_documents_in_collection")
        /\ n # m
        /\ last[<<call[p].collection, n>>].kind = "create_document"
        /\ last[<<call[p].collection, m>>].kind = "none"
        /\ docs[<<call[p].collection, n>>] # Absent
        /\ Gives(outcome[p], Returned(<<n>>))

\* C27: no call of a write path (create_document, update_document,
\* create_collection) issues a GET: each of its existence checks is a HEAD.
C27_ExistenceProbedWithHead ==
    \A p \in Callers :
        call[p].op \in {"create_document", "update_document", "create_collection"}
            => \A i \in 1..Len(reqs[p]) : reqs[p][i].method # "GET"

\* The envelope as the store requires it: a query element holding the text
\* element and the properties element.
FixedEnvelopeElements ==
    <<[parent |-> "none", tag |-> "<query>"],
      [parent |-> "<query>", tag |-> "<text>"],
      [parent |-> "<query>", tag |-> "<properties/>"]>>

\* C28: the request body of a query is well-formed, holds the elements of
\* the fixed envelope and no other, and the character data of its text
\* element is exactly the caller's expression, whatever the expression
\* contains.
C28_QueryExpressionIsLiteral ==
    \A p \in Callers :
        Ended(p, "query")
            => /\ Parse(reqs[p][1].body).wellformed
               /\ Parse(reqs[p][1].body).elements = FixedEnvelopeElements
               /\ Parse(reqs[p][1].body).text = call[p].content
====
